---- MODULE Spec2Model ----
(***************************************************************************)
(* A model of setup.py of aiter: the module-level build script (target     *)
(* selection, compiler flags, the two gradlib GEMM extensions, staging of  *)
(* aiter_meta, setup()) and NinjaBuildExtension.__init__, which throttles  *)
(* MAX_JOBS from the CPU count and the available memory.                   *)
(*                                                                         *)
(* Representation.                                                         *)
(*  - os.environ is a record of the variables the script reads; a field    *)
(*    holds {} when the variable is unset and {value} when it is set.      *)
(*  - MAX_JOBS is a Python string, kept as a sequence of characters, so    *)
(*    int() and str() are computed digit by digit.                         *)
(*  - psutil's available byte count exceeds TLC's integers, so it is kept  *)
(*    as [gib, rem]: available = gib * 1024^3 + rem with 0 <= rem < 1024^3.*)
(*  - max_num_jobs_cores is the float cpu_count * 0.8; it is kept exactly, *)
(*    as a number of fifths (4 * cpu_count).  The product n * 0.8 in       *)
(*    binary64 equals 4n/5 when that is an integer and lies strictly       *)
(*    between the same two integers as 4n/5 otherwise, so comparisons with *)
(*    integers and the truncation int() agree with the exact rational.     *)
(***************************************************************************)
EXTENDS Integers, Sequences, FiniteSets, TLC

VARIABLES
    environ,       \* os.environ: MAX_JOBS, BUILD_TARGET, GPU_ARCHS
    host,          \* what the machine and the installed torch answer
    fs,            \* the directories that exist
    pc,            \* position of the module-level script
    IS_ROCM,       \* {} while the name is unbound, else {TRUE} or {FALSE}
    cc_flag,       \* the device-compiler flag list
    ext_modules,   \* the extensions declared so far
    raised,        \* the exception that ended the script, or "none"
    log            \* one record per NinjaBuildExtension construction

vars == <<environ, host, fs, pc, IS_ROCM, cc_flag, ext_modules, raised, log>>

(***************************************************************************)
(* Bounds of the model.                                                    *)
(***************************************************************************)
MaxCpu == 16
MaxMemGiB == 40
MaxReq == 14
MaxNegReq == 1
MaxCalls == 2

(***************************************************************************)
(* Program constants.                                                      *)
(***************************************************************************)
GiB == 1073741824
GbPerJob == 9
CoreShareNum == 4
CoreShareDen == 5

Max(a, b) == IF a >= b THEN a ELSE b
Min(a, b) == IF a <= b THEN a ELSE b

(***************************************************************************)
(* Python's str(int) and int(str) on decimal numerals.                     *)
(***************************************************************************)
DigitChars == <<"0", "1", "2", "3", "4", "5", "6", "7", "8", "9">>

DigitVal(c) == (CHOOSE i \in 1..10 : DigitChars[i] = c) - 1

RECURSIVE StrNat(_)
StrNat(n) ==
    IF n < 10 THEN <<DigitChars[n + 1]>>
    ELSE Append(StrNat(n \div 10), DigitChars[(n % 10) + 1])

\* str(n)
Str(n) == IF n < 0 THEN <<"-">> \o StrNat(-n) ELSE StrNat(n)

RECURSIVE IntNat(_)
IntNat(s) ==
    IF s = <<>> THEN 0
    ELSE 10 * IntNat(SubSeq(s, 1, Len(s) - 1)) + DigitVal(s[Len(s)])

\* int(s) for a numeral with an optional sign
IntOf(s) ==
    IF Head(s) = "-" THEN -IntNat(Tail(s))
    ELSE IF Head(s) = "+" THEN IntNat(Tail(s))
    ELSE IntNat(s)

\* os.environ.get(name, default) on one field of environ
Get(field, default) == IF field = {} THEN default ELSE CHOOSE v \in field : TRUE

(***************************************************************************)
(* NinjaBuildExtension.__init__                                            *)
(***************************************************************************)
\* max(1, os.cpu_count() * 0.8), in fifths
MaxNumJobsCores5(cpu) == Max(1 * CoreShareDen, cpu * CoreShareNum)

\* int(os.environ.get("MAX_JOBS", '1'))
RequestedJobs(env) == IntOf(Get(env.MAX_JOBS, <<"1">>))

ThrottlesLe(requested, cpu) == requested * CoreShareDen <= MaxNumJobsCores5(cpu)
ThrottlesGt(requested, cpu) == requested * CoreShareDen > MaxNumJobsCores5(cpu)

\* int(os.environ.get("MAX_JOBS", '1')) < max_num_jobs_cores
Throttles(requested, cpu) == requested * CoreShareDen < MaxNumJobsCores5(cpu)

\* the operands of the division swapped
MaxNumJobsMemoryInverted(available) ==
    IF available.gib = 0 /\ available.rem = 0 THEN 0
    ELSE IF available.gib = 0 THEN GbPerJob
    ELSE GbPerJob \div available.gib

\* memory already granted to earlier constructions is held back
MaxNumJobsMemoryReserving(available) ==
    Max(0, (available.gib \div GbPerJob)
           - (IF log = <<>> THEN 0 ELSE log[Len(log)].limit))

\* int(psutil.virtual_memory().available / (1024 ** 3) / 9): the quotient of
\* gib * GiB + rem by 9 * GiB, which is gib \div 9 because rem < GiB
MaxNumJobsMemory(available) == available.gib \div GbPerJob

\* without the lower clamp
MaxJobsNoFloor(cores5, memory) == Min(cores5, memory * CoreShareDen) \div CoreShareDen

\* without the CPU bound
MaxJobsMemoryOnly(cores5, memory) == Max(1, memory)

\* round() where the code truncates
MaxJobsRounded(cores5, memory) ==
    (2 * Max(1 * CoreShareDen, Min(cores5, memory * CoreShareDen)) + CoreShareDen)
        \div (2 * CoreShareDen)

\* int(max(1, min(max_num_jobs_cores, max_num_jobs_memory))), cores in fifths
MaxJobs(cores5, memory) ==
    Max(1 * CoreShareDen, Min(cores5, memory * CoreShareDen)) \div CoreShareDen

\* The job limit one construction computes from the request and the host:
\* max_jobs when the memory check runs, the request left alone otherwise
JobLimit(requested, cpu, available) ==
    IF Throttles(requested, cpu)
    THEN MaxJobs(MaxNumJobsCores5(cpu), MaxNumJobsMemory(available))
    ELSE requested

\* One construction.  os.environ["MAX_JOBS"] = str(max_jobs) runs only
\* inside the if; super().__init__ does not touch MAX_JOBS.
NinjaBuildExtensionInit ==
    /\ pc = "setup"
    /\ Len(log) < MaxCalls
    /\ LET requested == RequestedJobs(environ)
           throttled == Throttles(requested, host.cpu_count)
           limit     == JobLimit(requested, host.cpu_count, host.available)
       IN  /\ environ' = IF throttled
                         THEN [environ EXCEPT !.MAX_JOBS = {Str(limit)}]
                         ELSE environ
           /\ log' = Append(log, [entry     |-> environ.MAX_JOBS,
                                  requested |-> requested,
                                  throttled |-> throttled,
                                  limit     |-> limit])
    /\ UNCHANGED <<host, fs, pc, IS_ROCM, cc_flag, ext_modules, raised>>

(***************************************************************************)
(* The module-level script.                                                *)
(***************************************************************************)
\* paths relative to this_dir; CK_DIR is taken as unset
bd_dir == "build"
blob_dir == "build/blob"
ck_dir == "3rdparty/composable_kernel"
meta_dir == "aiter_meta"

\* BUILD_TARGET = os.environ.get("BUILD_TARGET", "auto") and the if/elif
\* chain that binds IS_ROCM; no branch binds it for any other string
SelectTarget ==
    /\ pc = "select"
    /\ LET BUILD_TARGET == Get(environ.BUILD_TARGET, "auto")
       IN  IS_ROCM' = IF BUILD_TARGET = "auto" THEN {host.IS_HIP_EXTENSION}
                      ELSE IF BUILD_TARGET = "cuda" THEN {FALSE}
                      ELSE IF BUILD_TARGET = "rocm" THEN {TRUE}
                      ELSE {}
    /\ pc' = "branch"
    /\ UNCHANGED <<environ, host, fs, cc_flag, ext_modules, raised, log>>

Raise(exc) ==
    /\ raised' = exc
    /\ pc' = "raised"

\* if IS_ROCM: ... else: raise NotImplementedError("Only ROCM is supported");
\* reading an unbound name raises NameError
BranchOnRocm ==
    /\ pc = "branch"
    /\ IF IS_ROCM = {} THEN Raise("NameError")
       ELSE IF IS_ROCM = {TRUE} THEN pc' = "makedirs" /\ raised' = raised
       ELSE Raise("NotImplementedError")
    /\ UNCHANGED <<environ, host, fs, IS_ROCM, cc_flag, ext_modules, log>>

\* os.makedirs(bd_dir), os.makedirs(blob_dir) when they do not exist
MakeDirs ==
    /\ pc = "makedirs"
    /\ fs' = fs \cup {bd_dir, blob_dir}
    /\ pc' = "ck"
    /\ UNCHANGED <<environ, host, IS_ROCM, cc_flag, ext_modules, raised, log>>

\* assert os.path.exists(ck_dir)
CheckCK ==
    /\ pc = "ck"
    /\ IF ck_dir \in fs THEN pc' = "archs" /\ raised' = raised
       ELSE Raise("AssertionError")
    /\ UNCHANGED <<environ, host, fs, IS_ROCM, cc_flag, ext_modules, log>>

allowed_archs == {"native", "gfx90a", "gfx940", "gfx941", "gfx942", "gfx1100"}

\* os.getenv("GPU_ARCHS", "native").split(";"): GPU_ARCHS is kept as the
\* sequence of its ';'-separated fields
archs == Get(environ.GPU_ARCHS, <<"native">>)

Range(s) == {s[i] : i \in 1..Len(s)}

\* validate_and_update_archs(archs)
ValidateArchs ==
    /\ pc = "archs"
    /\ IF \A i \in 1..Len(archs) : archs[i] \in allowed_archs
       THEN pc' = "flags" /\ raised' = raised
       ELSE Raise("AssertionError")
    /\ UNCHANGED <<environ, host, fs, IS_ROCM, cc_flag, ext_modules, log>>

\* Version comparison on (major, minor, patch)
VersionGt(a, b) ==
    \/ a[1] > b[1]
    \/ a[1] = b[1] /\ a[2] > b[2]
    \/ a[1] = b[1] /\ a[2] = b[2] /\ a[3] > b[3]

OffloadFlags == [i \in 1..Len(archs) |-> "--offload-arch=" \o archs[i]]

FixedFlags ==
    <<"-mllvm", "-enable-post-misched=0",
      "-mllvm", "-amdgpu-early-inline-all=true",
      "-mllvm", "-amdgpu-function-calls=false",
      "-mllvm", "--amdgpu-kernarg-preload-count=16",
      "-mllvm", "-amdgpu-coerce-illegal-types=1",
      "-Wno-unused-result", "-Wno-switch-bool", "-Wno-vla-cxx-extension",
      "-Wno-undefined-func-template", "-fgpu-flush-denormals-to-zero">>

VersionFlags(v) ==
    (IF VersionGt(v, <<5, 7, 23302>>) THEN <<"-fno-offload-uniform-block">> ELSE <<>>)
    \o (IF VersionGt(v, <<6, 1, 40090>>)
        THEN <<"-mllvm", "-enable-post-misched=0">> ELSE <<>>)
    \o (IF VersionGt(v, <<6, 2, 41132>>)
        THEN <<"-mllvm", "-amdgpu-early-inline-all=true",
               "-mllvm", "-amdgpu-function-calls=false">> ELSE <<>>)
    \o (IF VersionGt(v, <<6, 2, 41133>>) /\ VersionGt(<<6, 3, 0>>, v)
        THEN <<"-mllvm", "-amdgpu-coerce-illegal-types=1">> ELSE <<>>)

\* cc_flag = [offload flags] + fixed flags + flags by HIP version;
\* get_hip_version() reads torch.version.hip, which is None on a torch
\* built without HIP: None.split raises AttributeError
BuildCcFlag ==
    /\ pc = "flags"
    /\ IF host.hip_version = {}
       THEN Raise("AttributeError") /\ cc_flag' = cc_flag
       ELSE /\ cc_flag' = OffloadFlags \o FixedFlags
                          \o VersionFlags(Get(host.hip_version, <<>>))
            /\ pc' = "rocsol"
            /\ raised' = raised
    /\ UNCHANGED <<environ, host, fs, IS_ROCM, ext_modules, log>>

CxxArgs == <<"-O3", "-DLEGACY_HIPBLAS_DIRECT=ON">>

NvccBase ==
    <<"-O3", "-U__CUDA_NO_HALF_OPERATORS__", "-U__CUDA_NO_HALF_CONVERSIONS__",
      "-ftemplate-depth=1024", "-DLEGACY_HIPBLAS_DIRECT=ON">>

\* 'nvcc': [...] + cc_flag
RocsolNvcc(flags) == NvccBase \o flags

\* 'nvcc': [...] + cc_flag + ['-DENABLE_TORCH_FP8'] if hasattr(torch,
\* 'float8_e4m3fnuz') else []: the conditional expression binds weaker than
\* +, so the else branch replaces the whole list
HipbsolNvcc(flags, has_fp8) ==
    IF has_fp8 THEN NvccBase \o flags \o <<"-DENABLE_TORCH_FP8">> ELSE <<>>

\* ext_modules.append(CUDAExtension(name='rocsolidxgemm_', ...)).  The calls
\* into aiter.jit.core before it (build_module under PREBUILD_KERNELS=1,
\* rename_cpp_to_cu) run code outside this file and bind nothing the
\* declarations read.
AppendRocsol ==
    /\ pc = "rocsol"
    /\ ext_modules' = Append(ext_modules,
           [name |-> "rocsolidxgemm_", libraries |-> <<"rocblas">>,
            cxx |-> CxxArgs, nvcc |-> RocsolNvcc(cc_flag)])
    /\ pc' = "hipbsol"
    /\ UNCHANGED <<environ, host, fs, IS_ROCM, cc_flag, raised, log>>

\* ext_modules.append(CUDAExtension(name='hipbsolidxgemm_', ...))
AppendHipbsol ==
    /\ pc = "hipbsol"
    /\ ext_modules' = Append(ext_modules,
           [name |-> "hipbsolidxgemm_", libraries |-> <<"hipblaslt">>,
            cxx |-> CxxArgs, nvcc |-> HipbsolNvcc(cc_flag, host.has_fp8)])
    /\ pc' = "stage"
    /\ UNCHANGED <<environ, host, fs, IS_ROCM, cc_flag, raised, log>>

\* rmtree("aiter_meta") when it is a directory, then the three copytree calls
StageMeta ==
    /\ pc = "stage"
    /\ fs' = fs \cup {meta_dir}
    /\ pc' = "setup"
    /\ UNCHANGED <<environ, host, IS_ROCM, cc_flag, ext_modules, raised, log>>

\* setup(...) returns
SetupReturns ==
    /\ pc = "setup"
    /\ pc' = "cleanup"
    /\ UNCHANGED <<environ, host, fs, IS_ROCM, cc_flag, ext_modules, raised, log>>

\* shutil.rmtree("aiter_meta") after setup()
Cleanup ==
    /\ pc = "cleanup"
    /\ fs' = fs \ {meta_dir}
    /\ pc' = "done"
    /\ UNCHANGED <<environ, host, IS_ROCM, cc_flag, ext_modules, raised, log>>

(***************************************************************************)
(* Specifications.                                                         *)
(*                                                                         *)
(* Spec: the constructions of NinjaBuildExtension inside setup(), from     *)
(* every MAX_JOBS entry value and host snapshot within the bounds, after   *)
(* the script has declared its extensions on a ROCm host.                  *)
(*                                                                         *)
(* SpecScript: the whole script from its first line, over the build        *)
(* targets, torch builds, GPU_ARCHS values and directory layouts, with a   *)
(* few host snapshots.                                                     *)
(***************************************************************************)
MaxJobsEntries ==
    {{}} \cup {{Str(n)} : n \in (-MaxNegReq)..MaxReq}
         \cup {{<<"+">> \o Str(n)} : n \in 0..MaxReq}

Availables == [gib : 0..MaxMemGiB, rem : {0, GiB - 1}]

Init ==
    /\ environ \in [MAX_JOBS : MaxJobsEntries, BUILD_TARGET : {{}},
                    GPU_ARCHS : {{<<"gfx942">>}}]
    /\ host \in [cpu_count : 1..MaxCpu, available : Availables,
                 IS_HIP_EXTENSION : {TRUE}, has_fp8 : {TRUE},
                 hip_version : {{<<6, 3, 42131>>}}]
    /\ fs = {bd_dir, blob_dir, ck_dir, meta_dir}
    /\ pc = "setup"
    /\ IS_ROCM = {TRUE}
    /\ cc_flag = OffloadFlags \o FixedFlags \o VersionFlags(<<6, 3, 42131>>)
    /\ ext_modules =
           <<[name |-> "rocsolidxgemm_", libraries |-> <<"rocblas">>,
              cxx |-> CxxArgs, nvcc |-> RocsolNvcc(cc_flag)],
             [name |-> "hipbsolidxgemm_", libraries |-> <<"hipblaslt">>,
              cxx |-> CxxArgs, nvcc |-> HipbsolNvcc(cc_flag, TRUE)]>>
    /\ raised = "none"
    /\ log = <<>>

Next == NinjaBuildExtensionInit

Spec == Init /\ [][Next]_vars

InitScript ==
    /\ environ \in [MAX_JOBS : {{}, {<<"1", "2">>}},
                    BUILD_TARGET : {{}, {"auto"}, {"cuda"}, {"rocm"}, {"hip"}},
                    GPU_ARCHS : {{}, {<<"gfx942">>}, {<<"gfx90a", "gfx942">>},
                                 {<<"gfx942", "sm_80">>}}]
    /\ host \in [cpu_count : {1, MaxCpu},
                 available : [gib : {0, MaxMemGiB}, rem : {0}],
                 IS_HIP_EXTENSION : BOOLEAN, has_fp8 : BOOLEAN,
                 hip_version : {{}, {<<5, 7, 23302>>}, {<<6, 2, 41134>>},
                                {<<6, 3, 42131>>}}]
    /\ host.IS_HIP_EXTENSION => host.hip_version # {}
    /\ fs \in SUBSET {bd_dir, blob_dir, ck_dir, meta_dir}
    /\ blob_dir \in fs => bd_dir \in fs
    /\ pc = "select"
    /\ IS_ROCM = {}
    /\ cc_flag = <<>>
    /\ ext_modules = <<>>
    /\ raised = "none"
    /\ log = <<>>

NextScript ==
    \/ SelectTarget
    \/ BranchOnRocm
    \/ MakeDirs
    \/ CheckCK
    \/ ValidateArchs
    \/ BuildCcFlag
    \/ AppendRocsol
    \/ AppendHipbsol
    \/ StageMeta
    \/ NinjaBuildExtensionInit
    \/ SetupReturns
    \/ Cleanup

SpecScript == InitScript /\ [][NextScript]_vars

(***************************************************************************)
(* Vocabulary of the properties.                                           *)
(***************************************************************************)
\* the construction that ran last
Last == log[Len(log)]

\* the job limit the build orchestrator reads: MAX_JOBS, 1 when it is unset
EffectiveLimit == IntOf(Get(environ.MAX_JOBS, <<"1">>))

\* max(1, floor(availableCpuCount * 0.8))
CpuCeiling(cpu) == Max(1, (cpu * 4) \div 5)

\* floor(availableMemoryBytes / (9 * 1024^3)): the k with
\* k * 9 GiB <= available < (k + 1) * 9 GiB
MemoryCeiling(available) ==
    CHOOSE k \in 0..(available.gib + 1) :
        /\ k * 9 <= available.gib
        /\ available.gib < (k + 1) * 9

NoMemory == [gib |-> 0, rem |-> 0]

\* available memory a is at most b
MemLeq(a, b) == a.gib < b.gib \/ (a.gib = b.gib /\ a.rem <= b.rem)

(***************************************************************************)
(* C1.  After a construction the job limit in effect (the MAX_JOBS value   *)
(* left behind, or the request when nothing was written) is at least 1,    *)
(* for every integer request, CPU count and available memory.              *)
(***************************************************************************)
C1_JobLimitAtLeastOne ==
    log # <<>> => (Last.limit >= 1 /\ EffectiveLimit >= 1)

C1_Witness ==
    /\ log # <<>>
    /\ Last.requested <= 0
    /\ host.available = NoMemory
    /\ EffectiveLimit = 1

(***************************************************************************)
(* C2.  As claimed: whenever requestedJobs >= max(1, floor(cpu * 0.8)) the *)
(* memory check is bypassed and the job limit equals requestedJobs.        *)
(***************************************************************************)
C2_BypassAtFlooredCeiling ==
    (log # <<>> /\ Last.requested >= CpuCeiling(host.cpu_count))
        => (~Last.throttled /\ EffectiveLimit = Last.requested)

(***************************************************************************)
(* C2, amended.  Whenever requestedJobs >= max(1, cpu * 0.8), the bound    *)
(* not floored (requestedJobs >= 1 on one CPU, 5 * requestedJobs >= 4 *    *)
(* cpu otherwise), the memory check is bypassed, MAX_JOBS is left as it    *)
(* was and the job limit equals requestedJobs.                             *)
(***************************************************************************)
C2_BypassAtUnflooredBound ==
    (/\ log # <<>>
     /\ Last.requested >= 1
     /\ 5 * Last.requested >= 4 * host.cpu_count)
        => (/\ ~Last.throttled
            /\ environ.MAX_JOBS = Last.entry
            /\ Last.limit = Last.requested
            /\ EffectiveLimit = Last.requested)

C2_Witness ==
    /\ log # <<>>
    /\ host.cpu_count = 16
    /\ Last.requested = 13
    /\ host.available = NoMemory
    /\ ~Last.throttled
    /\ EffectiveLimit = 13

(***************************************************************************)
(* C3.  As claimed: after a construction MAX_JOBS is set and holds the     *)
(* computed job limit, also when it was unset on entry.                    *)
(***************************************************************************)
C3_MaxJobsHoldsLimit ==
    log # <<>> =>
        (/\ environ.MAX_JOBS # {}
         /\ IntOf(Get(environ.MAX_JOBS, <<"0">>)) = Last.limit)

(***************************************************************************)
(* C4.  A construction that follows another on the same host snapshot      *)
(* computes the same job limit and leaves MAX_JOBS as it found it.         *)
(***************************************************************************)
C4_SecondConstructionSameLimit ==
    \A i \in 2..Len(log) :
        /\ log[i].limit = log[i - 1].limit
        /\ (i = Len(log) => environ.MAX_JOBS = log[i].entry)

C4_Witness ==
    /\ Len(log) = 2
    /\ log[1].throttled
    /\ log[2].throttled
    /\ log[2].entry # log[1].entry
    /\ log[2].limit > 1
    /\ EffectiveLimit = log[1].limit

(***************************************************************************)
(* C5.  When the memory check ran, the job limit is at most                *)
(* max(1, floor(cpu * 0.8)).                                               *)
(***************************************************************************)
C5_ThrottledAtMostCpuCeiling ==
    (log # <<>> /\ Last.throttled)
        => (/\ Last.limit <= CpuCeiling(host.cpu_count)
            /\ EffectiveLimit <= CpuCeiling(host.cpu_count))

C5_Witness ==
    /\ log # <<>>
    /\ Last.throttled
    /\ MemoryCeiling(host.available) > CpuCeiling(host.cpu_count)
    /\ CpuCeiling(host.cpu_count) > 1
    /\ EffectiveLimit = CpuCeiling(host.cpu_count)

(***************************************************************************)
(* C6.  With the request and the CPU count fixed, more available memory    *)
(* never gives a smaller job limit: the limit of the construction that ran *)
(* is at most the limit the same request gets with any larger memory.      *)
(***************************************************************************)
C6_MonotoneInMemory ==
    log # <<>> =>
        \A m2 \in Availables :
            MemLeq(host.available, m2)
                => Last.limit <= JobLimit(Last.requested, host.cpu_count, m2)

C6_Witness ==
    /\ log # <<>>
    /\ Last.throttled
    /\ Last.limit > 1
    /\ \E m2 \in Availables :
           /\ MemLeq(host.available, m2)
           /\ Last.limit < JobLimit(Last.requested, host.cpu_count, m2)

(***************************************************************************)
(* C7.  If requestedJobs < max(1, floor(cpu * 0.8)) and no memory is       *)
(* available, the job limit is exactly 1.                                  *)
(***************************************************************************)
C7_NoMemoryGivesOne ==
    (/\ log # <<>>
     /\ Last.requested < CpuCeiling(host.cpu_count)
     /\ host.available = NoMemory)
        => (Last.limit = 1 /\ environ.MAX_JOBS = {<<"1">>})

C7_Witness ==
    /\ log # <<>>
    /\ host.cpu_count = 16
    /\ Last.requested = 5
    /\ host.available = NoMemory
    /\ EffectiveLimit = 1

(***************************************************************************)
(* C8.  When the memory check ran, the value written to MAX_JOBS is        *)
(* max(1, min(cpuCeiling, memoryCeiling)) with the CPU ceiling floored:    *)
(* truncating only the final value gives the same number.                  *)
(***************************************************************************)
C8_WrittenEqualsFlooredReference ==
    (log # <<>> /\ Last.throttled)
        => LET ref == Max(1, Min(CpuCeiling(host.cpu_count),
                                 MemoryCeiling(host.available)))
           IN  /\ Last.limit = ref
               /\ environ.MAX_JOBS # {}
               /\ EffectiveLimit = ref

C8_Witness ==
    /\ log # <<>>
    /\ host.cpu_count = 16
    /\ Last.requested = 1
    /\ host.available.gib = 40
    /\ Last.throttled
    /\ environ.MAX_JOBS = {<<"4">>}

(***************************************************************************)
(* C9.  As claimed: once both GEMM extensions are declared, the nvcc       *)
(* arguments of each contain -O3 and --offload-arch=<arch> for every entry *)
(* of GPU_ARCHS, with or without torch.float8_e4m3fnuz.                    *)
(***************************************************************************)
C9_BothExtensionsCarryDeviceFlags ==
    pc \in {"stage", "setup", "cleanup", "done"} =>
        /\ Len(ext_modules) = 2
        /\ \A i \in 1..Len(ext_modules) :
               /\ "-O3" \in Range(ext_modules[i].nvcc)
               /\ \A a \in Range(archs) :
                      ("--offload-arch=" \o a) \in Range(ext_modules[i].nvcc)

(***************************************************************************)
(* C10.  As claimed: for every BUILD_TARGET that does not select ROCm the  *)
(* branch on IS_ROCM ends the script with NotImplementedError and changes  *)
(* no directory.                                                           *)
(***************************************************************************)
SelectsRocm ==
    LET BUILD_TARGET == Get(environ.BUILD_TARGET, "auto")
    IN  \/ BUILD_TARGET = "rocm"
        \/ BUILD_TARGET = "auto" /\ host.IS_HIP_EXTENSION

C10_NonRocmRaisesNotImplemented ==
    [][(pc = "branch" /\ ~SelectsRocm)
          => (pc' = "raised" /\ raised' = "NotImplementedError" /\ fs' = fs)]_vars

====
